---- MODULE Spec2Model ----
(***************************************************************************)
(* The chunk streaming pipeline of rustcraft (src/chunks/chunk_loader.rs   *)
(* and src/world.rs): the candidate expansion all_chunks, the four systems *)
(* gather_chunks, generate_chunks, load_chunks and unload_chunks, and the  *)
(* Chunk Store queries of World.                                           *)
(*                                                                         *)
(* A chunk coordinate is a triple <<x, y, z>> of integers (ChunkCoordinate *)
(* wraps an I64Vec3).  A VecDeque is a sequence whose head is the front.   *)
(* A viewer position is a triple of integers counted in half blocks, so    *)
(* that positions between two block corners exist; a forward vector is an  *)
(* integer triple F standing for the unit vector F / |F|.                  *)
(***************************************************************************)
EXTENDS Integers, Sequences, FiniteSets, TLC

VARIABLES
    generate_queue,   \* ChunkLoader.generate_queue
    load_queue,       \* ChunkLoader.load_queue
    unload_queue,     \* ChunkLoader.unload_queue
    loaded,           \* ChunkLoader.loaded : coordinate -> entity
    render_distance,  \* ChunkLoader.render_distance
    chunks,           \* World.chunks : coordinate -> ChunkData
    seed,             \* World.seed
    entities,         \* the chunk entities alive in the host's scene
    player,           \* translation of the Player entity, or None
    camera,           \* forward vector of the Camera entity, or None
    panicked,         \* a system panicked: the process is gone
    writes,           \* history: set_chunk_data calls per coordinate
    admit_ticket,     \* history: queued coordinate -> <<gather batch, selector rank>>
    unload_ticket,    \* history: coordinate in unload_queue -> gather batch
    moves,            \* history: how often the host moved the viewer
    last_op,          \* history: the system that ran last
    last_log,         \* history: what that run handled, in order
    last_wanted,      \* history: the vector all_chunks of the last gather
    tasks,            \* the batches of the parallel generate_chunks in flight
    args,             \* the arguments of a function called on its own, or None
    result            \* what that call returned, or None

vars == <<generate_queue, load_queue, unload_queue, loaded, render_distance,
          chunks, seed, entities, player, camera, panicked, writes,
          admit_ticket, unload_ticket, moves, last_op, last_log, last_wanted,
          tasks, args, result>>

\* a call of a function on its own, outside the pipeline
call == <<args, result>>

\* Option<T>: None is the empty set and Some(x) the set of x alone
None == {}

Some(x) == {x}

Unwrap(o) == CHOOSE x \in o : TRUE

\* Op applied to the value of x, computed once and before Op is entered
Then(x, Op(_)) == Unwrap({Op(v) : v \in {x}})

(***************************************************************************)
(* Bounds of the model.                                                    *)
(***************************************************************************)
\* A run with render distance r is followed through MaxEffort - r moves of
\* the viewer: the wider the wanted set, the fewer moves.
MaxEffort == 3

\* the render distances ChunkLoader::new is given.  Two is the least distance
\* at which the selector returns more coordinates than one gather admits.
RenderDistances == {0, 1, 2}

\* the render distances of the pipeline run tick by tick.  Three is the
\* least distance at which a tick leaves wanted chunks for the next one to
\* admit.
TickDistances == {1, 2, 3}

\* the seeds World::new may draw
Seeds == {0, 1}

\* A while loop is run 2^LoopBlock iterations at a time, which keeps the
\* evaluation of a long loop shallow; the loop ends when its condition
\* fails, whatever the block.
LoopBlock == 4

RECURSIVE Steps(_, _, _)
\* 2^k iterations of the loop body, one after the other
Steps(Body(_), k, st) ==
    IF k = 0 THEN Body(st)
    ELSE Then(Steps(Body, k - 1, st), LAMBDA half : Steps(Body, k - 1, half))

RECURSIVE Loop(_, _, _)
\* a while loop from the state st: the body until Done holds.  A body leaves
\* a state in which Done holds as it is.
Loop(Body(_), Done(_), st) ==
    IF Done(st) THEN st
    ELSE Then(Steps(Body, LoopBlock, st), LAMBDA st1 : Loop(Body, Done, st1))

(***************************************************************************)
(* Program constants.                                                      *)
(***************************************************************************)
chunk_size == 16
GenerateCap == 16

(***************************************************************************)
(* Sequences.                                                              *)
(***************************************************************************)
Range(s) == {s[i] : i \in 1..Len(s)}

Reverse(s) == [i \in 1..Len(s) |-> s[Len(s) + 1 - i]]

Take(s, n) == IF Len(s) <= n THEN s ELSE SubSeq(s, 1, n)

IndexOf(s, x) == CHOOSE i \in 1..Len(s) : s[i] = x

NoDuplicates(s) == \A i, j \in 1..Len(s) : i # j => s[i] # s[j]

\* as PushFrontAll, with push_back for push_front
PushBackAll(q, s) == q \o s

\* VecDeque::push_front of the elements of s, one after the other
PushFrontAll(q, s) == Reverse(s) \o q

RECURSIVE Orderings(_)
\* the orders in which a HashSet may be iterated
Orderings(S) ==
    IF S = {} THEN {<< >>}
    ELSE UNION {{<<x>> \o p : p \in Orderings(S \ {x})} : x \in S}

Max(S) == CHOOSE m \in S : \A n \in S : n <= m

Abs(n) == IF n < 0 THEN -n ELSE n

\* Rust's integer division and float-to-integer cast round toward zero
TruncDiv(a, b) == IF a >= 0 THEN a \div b ELSE -((-a) \div b)

(***************************************************************************)
(* Coordinates.                                                            *)
(***************************************************************************)
Sub(a, b) == <<a[1] - b[1], a[2] - b[2], a[3] - b[3]>>

Dot(a, b) == a[1] * b[1] + a[2] * b[2] + a[3] * b[3]

\* (v).abs().max_element()
Chebyshev(v) == Max({Abs(v[1]), Abs(v[2]), Abs(v[3])})

\* ChunkCoordinate::adjacent: the six face neighbours
adjacent(c) ==
    << <<c[1] + 1, c[2], c[3]>>, <<c[1] - 1, c[2], c[3]>>,
       <<c[1], c[2] + 1, c[3]>>, <<c[1], c[2] - 1, c[3]>>,
       <<c[1], c[2], c[3] + 1>>, <<c[1], c[2], c[3] - 1>> >>

\* ChunkOctree::chunk_centre, in half blocks
chunk_centre(c) ==
    <<2 * chunk_size * c[1] + chunk_size, 2 * chunk_size * c[2] + chunk_size,
      2 * chunk_size * c[3] + chunk_size>>

chunk_to_world(c) == chunk_centre(c)

\* `x as i64` of a position given in half blocks
as_i64(h) == TruncDiv(h, 2)

block_to_chunk_coordinate(b) ==
    <<TruncDiv(b[1], chunk_size), TruncDiv(b[2], chunk_size), TruncDiv(b[3], chunk_size)>>

\* as DotAboveHalf, with the threshold 0.0
DotAboveZero(f, d) == Dot(f, d) > 0

\* camera_forward.dot(d.normalize()) > 0.5 for the unit vector along f:
\* f.d / (|f| |d|) > 1/2.  A zero d normalizes to NaN, and NaN > 0.5 is false.
DotAboveHalf(f, d) ==
    /\ Dot(f, d) > 0
    /\ 4 * Dot(f, d) * Dot(f, d) > Dot(f, f) * Dot(d, d)

(***************************************************************************)
(* The candidate expansion (chunk_loader.rs, all_chunks).                  *)
(***************************************************************************)
\* the loop over next.adjacent() on the deque `stack` with the set `seen`.
\* The six neighbours differ from each other, so that none of them is in
\* `seen` because of another: each is tested against `seen` as the loop
\* found it, and all six are in it afterwards.
expand(ns, stack, seen, camera_chunk, camera_forward) ==
    LET passes(neighbour) ==
            /\ neighbour \notin seen
            /\ DotAboveHalf(camera_forward,
                            Sub(chunk_to_world(neighbour), chunk_to_world(camera_chunk)))
        pushed == SelectSeq(ns, passes)
    IN [stack |-> stack \o [i \in 1..Len(pushed) |->
                               <<pushed[i], Chebyshev(Sub(pushed[i], camera_chunk))>>],
        seen |-> seen \cup Range(ns)]

\* one iteration of the while loop of all_chunks on st = [stack, seen, out];
\* with the stack empty the loop is over and nothing changes
search_step(st, camera_chunk, camera_forward, max_distance) ==
    IF st.stack = << >> THEN st
    ELSE LET next == Head(st.stack)[1]
             distance == Head(st.stack)[2]
             out1 == Append(st.out, next)
             seen1 == st.seen \cup {next}
         IN IF distance >= max_distance
            THEN [stack |-> Tail(st.stack), seen |-> seen1, out |-> out1]
            ELSE LET e == expand(adjacent(next), Tail(st.stack), seen1,
                                 camera_chunk, camera_forward)
                 IN [stack |-> e.stack, seen |-> e.seen, out |-> out1]

\* the while loop of all_chunks: iterations until the stack is empty
search(st, camera_chunk, camera_forward, max_distance) ==
    Loop(LAMBDA s : search_step(s, camera_chunk, camera_forward, max_distance),
         LAMBDA s : s.stack = << >>, st).out

start_chunk(camera_pos) ==
    block_to_chunk_coordinate(<<as_i64(camera_pos[1]), as_i64(camera_pos[2]),
                                as_i64(camera_pos[3])>>)

all_chunks(camera_pos, camera_forward, max_distance) ==
    LET camera_chunk == start_chunk(camera_pos)
    IN search([stack |-> << <<camera_chunk, 0>> >>, seen |-> {}, out |-> << >>],
              camera_chunk, camera_forward, max_distance)

(***************************************************************************)
(* The world (world.rs).  ChunkData is reduced to what the pipeline reads  *)
(* of it: whether it is empty().                                           *)
(***************************************************************************)
\* WorldGenerator::generate_chunk: a pure function of the seed and the
\* coordinate.  The terrain is a sheet in the layer y = 0 with holes.
generator_generate_chunk(s, c) ==
    [empty |-> ~(c[2] = 0 /\ (c[1] + c[3] + s) % 2 = 0)]

\* ChunkOctree::get_chunk_data on the store st: Some(data) or None
get_chunk_data(st, c) == IF c \in DOMAIN st THEN Some(st[c]) ELSE None

is_chunk_generated(st, c) == get_chunk_data(st, c) # None

\* as is_chunk_empty, with unwrap_or(true)
is_chunk_empty_or_absent(st, c) ==
    LET d == get_chunk_data(st, c) IN IF d = None THEN TRUE ELSE Unwrap(d).empty

is_chunk_empty(st, c) ==
    LET d == get_chunk_data(st, c) IN IF d = None THEN FALSE ELSE Unwrap(d).empty

\* a function with one more point
Put(f, k, v) == [x \in DOMAIN f \cup {k} |-> IF x = k THEN v ELSE f[x]]

\* as generate_chunk, without the early return for a generated coordinate
generate_chunk_again(w, s, c) ==
    [chunks |-> Put(w.chunks, c, generator_generate_chunk(s, c)),
     writes |-> Put(w.writes, c, (IF c \in DOMAIN w.writes THEN w.writes[c] ELSE 0) + 1)]

\* World::generate_chunk on the pair w = [chunks, writes]
generate_chunk(w, s, c) ==
    IF is_chunk_generated(w.chunks, c) THEN w
    ELSE [chunks |-> Put(w.chunks, c, generator_generate_chunk(s, c)),
          writes |-> Put(w.writes, c,
                         (IF c \in DOMAIN w.writes THEN w.writes[c] ELSE 0) + 1)]

RECURSIVE world_generate_chunks(_, _, _, _)
\* World::generate_chunks: generate_chunk for chunk_coords[i..], in order
world_generate_chunks(w, s, chunk_coords, i) ==
    IF i > Len(chunk_coords) THEN w
    ELSE Then(generate_chunk(w, s, chunk_coords[i]),
              LAMBDA w1 : world_generate_chunks(w1, s, chunk_coords, i + 1))

\* World::adjacent_chunk_data
adjacent_chunk_data(st, c) == [i \in 1..6 |-> get_chunk_data(st, adjacent(c)[i])]

(***************************************************************************)
(* What the host feeds in: where the player may stand and look.            *)
(***************************************************************************)
\* player translations, in half blocks: the middle of chunk <<0, 0, 0>> and
\* the middle of chunk <<1, 0, 0>>
Positions == {<<16, 16, 16>>, <<48, 16, 16>>}

\* camera forward vectors
Forwards == {<<1, 0, 0>>, <<-1, 0, 0>>}

\* where the player is spawned, and where the camera looks then
SpawnPosition == <<16, 16, 16>>

SpawnForward == <<1, 0, 0>>

\* all_chunks for every pose of the model, computed once
selected ==
    [p \in Positions, f \in Forwards, r \in RenderDistances \cup TickDistances |->
        all_chunks(p, f, r)]

(***************************************************************************)
(* gather_chunks (chunk_loader.rs).                                        *)
(***************************************************************************)
\* the batch number a gather gives to what it enqueues: one above every
\* batch still queued
NextBatch(batches) == IF batches = {} THEN 1 ELSE Max(batches) + 1

\* as qualifies, without the filter on queued_for_loading
qualifies_unless_loading(c, gq, lq, ld, st) ==
    /\ c \notin Range(gq)
    /\ c \notin DOMAIN ld
    /\ ~is_chunk_empty(st, c)

\* as qualifies, without the filter on loaded
qualifies_though_loaded(c, gq, lq, ld, st) ==
    /\ c \notin Range(gq)
    /\ c \notin Range(lq)
    /\ ~is_chunk_empty(st, c)

\* as qualifies, without the filter on is_chunk_empty
qualifies_though_empty(c, gq, lq, ld, st) ==
    /\ c \notin Range(gq)
    /\ c \notin Range(lq)
    /\ c \notin DOMAIN ld

\* as qualifies, without the filter on queued_for_generation
qualifies_though_queued(c, gq, lq, ld, st) ==
    /\ c \notin Range(lq)
    /\ c \notin DOMAIN ld
    /\ ~is_chunk_empty(st, c)

\* the chain of filters before take(16)
qualifies(c, gq, lq, ld, st) ==
    /\ c \notin Range(gq)
    /\ c \notin Range(lq)
    /\ c \notin DOMAIN ld
    /\ ~is_chunk_empty(st, c)

\* as to_generate, without take(16)
to_generate_all(wanted, gq, lq, ld, st) ==
    SelectSeq(wanted, LAMBDA c : c \notin Range(gq) /\ c \notin Range(lq)
                                 /\ c \notin DOMAIN ld /\ ~is_chunk_empty(st, c))

to_generate(wanted, gq, lq, ld, st) ==
    Take(SelectSeq(wanted, LAMBDA c : qualifies(c, gq, lq, ld, st)), GenerateCap)

\* as to_unload, with the loaded chunks that are wanted
to_unload_the_wanted(wanted, ld, uq) ==
    {c \in (DOMAIN ld) \cap Range(wanted) : c \notin Range(uq)}

\* as to_unload, without the filter on queued_for_unload
to_unload_again(wanted, ld, uq) == (DOMAIN ld) \ Range(wanted)

to_unload(wanted, ld, uq) ==
    {c \in (DOMAIN ld) \ Range(wanted) : c \notin Range(uq)}

gather_panics == player = None \/ camera = None

gather_chunks_panic ==
    /\ ~panicked
    /\ gather_panics
    /\ panicked' = TRUE
    /\ last_op' = "gather"
    /\ last_log' = << >>
    /\ UNCHANGED <<call, last_wanted, tasks>>
    /\ UNCHANGED <<generate_queue, load_queue, unload_queue, loaded, render_distance,
                   chunks, seed, entities, player, camera, writes, admit_ticket,
                   unload_ticket, moves>>

gather_chunks ==
    /\ ~panicked
    /\ ~gather_panics
    /\ LET wanted == selected[Unwrap(player), Unwrap(camera), render_distance]
           unl == to_unload(wanted, loaded, unload_queue)
           gen == to_generate(wanted, generate_queue, load_queue, loaded, chunks)
           batch == NextBatch({admit_ticket[c][1] : c \in DOMAIN admit_ticket})
           ubatch == NextBatch({unload_ticket[c] : c \in DOMAIN unload_ticket})
       IN /\ \E order \in Orderings(unl) :
                unload_queue' = PushFrontAll(unload_queue, order)
          /\ generate_queue' = PushFrontAll(generate_queue, gen)
          /\ admit_ticket' =
                [c \in DOMAIN admit_ticket \cup Range(gen) |->
                    IF c \in Range(gen) THEN <<batch, IndexOf(wanted, c)>>
                    ELSE admit_ticket[c]]
          /\ unload_ticket' =
                [c \in DOMAIN unload_ticket \cup unl |->
                    IF c \in unl THEN ubatch ELSE unload_ticket[c]]
          /\ last_log' = gen
          /\ last_wanted' = wanted
    /\ last_op' = "gather"
    /\ UNCHANGED <<call, tasks>>
    /\ UNCHANGED <<load_queue, loaded, render_distance, chunks, seed, entities,
                   player, camera, panicked, writes, moves>>

(***************************************************************************)
(* generate_chunks (chunk_loader.rs).                                      *)
(***************************************************************************)
\* as with_adjacent, without chunks.extend(chunk.adjacent())
without_adjacent(chunk) == <<chunk>>

\* the coordinates one iteration hands to World::generate_chunks
with_adjacent(chunk) == <<chunk>> \o adjacent(chunk)

\* as push_to_load, with the neighbours pushed after the chunk
push_to_load_with_neighbours(lq, chunk) == Reverse(with_adjacent(chunk)) \o lq

\* load_queue.push_front(chunk)
push_to_load(lq, chunk) == <<chunk>> \o lq

\* one iteration of the while loop on st = [gq, lq, w, log]: gq and lq are
\* the queues, w the world, log what was popped; with gq empty the loop is
\* over and nothing changes
generate_step(st, s) ==
    IF st.gq = << >> THEN st
    ELSE LET chunk == Head(st.gq)
         IN [gq |-> Tail(st.gq),
             lq |-> push_to_load(st.lq, chunk),
             w |-> world_generate_chunks(st.w, s, with_adjacent(chunk), 1),
             log |-> Append(st.log, chunk)]

\* the while loop: iterations until generate_queue is empty
generate_drain(gq, lq, w, s, log) ==
    Loop(LAMBDA st : generate_step(st, s), LAMBDA st : st.gq = << >>,
         [gq |-> gq, lq |-> lq, w |-> w, log |-> log])

generate_chunks ==
    /\ ~panicked
    /\ LET r == generate_drain(generate_queue, load_queue,
                               [chunks |-> chunks, writes |-> writes], seed, << >>)
       IN /\ generate_queue' = << >>
          /\ load_queue' = r.lq
          /\ chunks' = r.w.chunks
          /\ writes' = r.w.writes
          /\ last_log' = r.log
    /\ last_op' = "generate"
    /\ UNCHANGED <<call, last_wanted, tasks>>
    /\ UNCHANGED <<unload_queue, loaded, render_distance, seed, entities, player,
                   camera, panicked, admit_ticket, unload_ticket, moves>>

(***************************************************************************)
(* load_chunks (chunk_loader.rs).                                          *)
(***************************************************************************)
\* World::generate_chunk_mesh: None stands for the panic of unwrap()
generate_chunk_mesh(st, c) ==
    IF get_chunk_data(st, c) = None THEN None
    ELSE Some([chunk_data |-> Unwrap(get_chunk_data(st, c)),
               adjacent_chunks |-> adjacent_chunk_data(st, c)])

\* as load_step, without the `continue` for a chunk that is empty
load_step_without_skip(st, store) ==
    IF st.lq = << >> \/ st.panic THEN st
    ELSE LET chunk == Head(st.lq)
         IN IF generate_chunk_mesh(store, chunk) = None
            THEN [lq |-> Tail(st.lq), meshes |-> st.meshes,
                  log |-> Append(st.log, chunk), panic |-> TRUE]
            ELSE [lq |-> Tail(st.lq),
                  meshes |-> Append(st.meshes,
                                    <<chunk, Unwrap(generate_chunk_mesh(store, chunk))>>),
                  log |-> Append(st.log, chunk), panic |-> FALSE]

\* one iteration of the while loop on st = [lq, meshes, log, panic]: lq is
\* the queue, meshes is generated_meshes, panic the unwrap() that failed;
\* with lq empty, or after the panic, nothing changes
load_step(st, store) ==
    IF st.lq = << >> \/ st.panic THEN st
    ELSE LET chunk == Head(st.lq)
         IN IF is_chunk_empty(store, chunk)
            THEN [lq |-> Tail(st.lq), meshes |-> st.meshes,
                  log |-> Append(st.log, chunk), panic |-> FALSE]
            ELSE IF generate_chunk_mesh(store, chunk) = None
            THEN [lq |-> Tail(st.lq), meshes |-> st.meshes,
                  log |-> Append(st.log, chunk), panic |-> TRUE]
            ELSE [lq |-> Tail(st.lq),
                  meshes |-> Append(st.meshes,
                                    <<chunk, Unwrap(generate_chunk_mesh(store, chunk))>>),
                  log |-> Append(st.log, chunk), panic |-> FALSE]

\* the while loop: iterations until load_queue is empty
load_drain(lq, st, meshes, log) ==
    Loop(LAMBDA d : load_step(d, st), LAMBDA d : d.lq = << >> \/ d.panic,
         [lq |-> lq, meshes |-> meshes, log |-> log, panic |-> FALSE])

\* Commands::spawn(..).id(): an entity that is not alive
new_entity(es) == CHOOSE e \in 1..(Cardinality(es) + 1) :
                      e \notin es /\ \A d \in 1..(e - 1) : d \in es

\* as spawn_step, with the Loaded Set rebuilt from this run's meshes alone
spawn_step_forgetting(st, meshes) ==
    IF st.i > Len(meshes) THEN st
    ELSE LET entity == new_entity(st.entities)
         IN [i |-> st.i + 1,
             loaded |-> Put(IF st.i = 1 THEN << >> ELSE st.loaded, meshes[st.i][1], entity),
             entities |-> st.entities \cup {entity}]

\* one iteration of the for loop on st = [i, loaded, entities], at the i-th
\* of generated_meshes; past the last one nothing changes
spawn_step(st, meshes) ==
    IF st.i > Len(meshes) THEN st
    ELSE LET entity == new_entity(st.entities)
         IN [i |-> st.i + 1,
             loaded |-> Put(st.loaded, meshes[st.i][1], entity),
             entities |-> st.entities \cup {entity}]

\* the for loop over generated_meshes
spawn_all(meshes, i, ld, es) ==
    Loop(LAMBDA st : spawn_step(st, meshes), LAMBDA st : st.i > Len(meshes),
         [i |-> i, loaded |-> ld, entities |-> es])

load_chunks ==
    /\ ~panicked
    /\ LET d == load_drain(load_queue, chunks, << >>, << >>)
           sp == spawn_all(d.meshes, 1, loaded, entities)
       IN /\ load_queue' = d.lq
          /\ panicked' = d.panic
          /\ loaded' = IF d.panic THEN loaded ELSE sp.loaded
          /\ entities' = IF d.panic THEN entities ELSE sp.entities
          /\ admit_ticket' = [c \in DOMAIN admit_ticket \ Range(d.log) |-> admit_ticket[c]]
          /\ last_log' = d.log
    /\ last_op' = "load"
    /\ UNCHANGED <<call, last_wanted, tasks>>
    /\ UNCHANGED <<generate_queue, unload_queue, render_distance, chunks, seed,
                   player, camera, writes, unload_ticket, moves>>

(***************************************************************************)
(* unload_chunks (chunk_loader.rs).                                        *)
(***************************************************************************)
Remove(f, k) == [x \in DOMAIN f \ {k} |-> f[x]]

\* as unload_step, with the entity despawned and its entry left in `loaded`
unload_step_keeping_entry(st) ==
    IF st.uq = << >> THEN st
    ELSE LET chunk == Head(st.uq)
         IN IF chunk \in DOMAIN st.loaded
            THEN [uq |-> Tail(st.uq), loaded |-> st.loaded,
                  entities |-> st.entities \ {st.loaded[chunk]},
                  log |-> Append(st.log, chunk)]
            ELSE [uq |-> Tail(st.uq), loaded |-> st.loaded, entities |-> st.entities,
                  log |-> Append(st.log, chunk)]

\* one iteration of the while loop on st = [uq, loaded, entities, log]: uq
\* is the queue, loaded the Loaded Set, entities the live entities; with uq
\* empty the loop is over and nothing changes
unload_step(st) ==
    IF st.uq = << >> THEN st
    ELSE LET chunk == Head(st.uq)
         IN IF chunk \in DOMAIN st.loaded
            THEN [uq |-> Tail(st.uq), loaded |-> Remove(st.loaded, chunk),
                  entities |-> st.entities \ {st.loaded[chunk]},
                  log |-> Append(st.log, chunk)]
            ELSE [uq |-> Tail(st.uq), loaded |-> st.loaded, entities |-> st.entities,
                  log |-> Append(st.log, chunk)]

\* the while loop: iterations until unload_queue is empty
unload_drain(uq, ld, es, log) ==
    Loop(LAMBDA st : unload_step(st), LAMBDA st : st.uq = << >>,
         [uq |-> uq, loaded |-> ld, entities |-> es, log |-> log])

unload_chunks ==
    /\ ~panicked
    /\ LET r == unload_drain(unload_queue, loaded, entities, << >>)
       IN /\ unload_queue' = << >>
          /\ loaded' = r.loaded
          /\ entities' = r.entities
          /\ last_log' = [i \in 1..Len(r.log) |-> <<r.log[i], unload_ticket[r.log[i]]>>]
    /\ unload_ticket' = << >>
    /\ last_op' = "unload"
    /\ UNCHANGED <<call, last_wanted, tasks>>
    /\ UNCHANGED <<generate_queue, load_queue, render_distance, chunks, seed,
                   player, camera, panicked, writes, admit_ticket, moves>>

(***************************************************************************)
(* The host: the player moves, the camera turns, either may go away.       *)
(***************************************************************************)
move_player ==
    /\ ~panicked
    /\ moves + render_distance < MaxEffort
    /\ player # None
    /\ moves' = moves + 1
    /\ \E p \in {Some(q) : q \in Positions} \cup {None} : p # player /\ player' = p
    /\ last_op' = "host"
    /\ last_log' = << >>
    /\ UNCHANGED <<call, last_wanted, tasks>>
    /\ UNCHANGED <<generate_queue, load_queue, unload_queue, loaded, render_distance,
                   chunks, seed, entities, camera, panicked, writes, admit_ticket,
                   unload_ticket>>

turn_camera ==
    /\ ~panicked
    /\ moves + render_distance < MaxEffort
    /\ camera # None
    /\ moves' = moves + 1
    /\ \E f \in {Some(g) : g \in Forwards} \cup {None} : f # camera /\ camera' = f
    /\ last_op' = "host"
    /\ last_log' = << >>
    /\ UNCHANGED <<call, last_wanted, tasks>>
    /\ UNCHANGED <<generate_queue, load_queue, unload_queue, loaded, render_distance,
                   chunks, seed, entities, player, panicked, writes, admit_ticket,
                   unload_ticket>>

(***************************************************************************)
(* The pipeline under any interleaving of its systems.                     *)
(***************************************************************************)
Init ==
    /\ generate_queue = << >>
    /\ load_queue = << >>
    /\ unload_queue = << >>
    /\ loaded = << >>
    /\ render_distance \in RenderDistances
    /\ chunks = << >>
    /\ seed \in Seeds
    /\ entities = {}
    /\ player = Some(SpawnPosition)
    /\ camera = Some(SpawnForward)
    /\ panicked = FALSE
    /\ writes = << >>
    /\ admit_ticket = << >>
    /\ unload_ticket = << >>
    /\ moves = 0
    /\ last_op = "init"
    /\ last_log = << >>
    /\ last_wanted = << >>
    /\ tasks = << >>
    /\ args = None
    /\ result = None

Next ==
    \/ gather_chunks
    \/ gather_chunks_panic
    \/ generate_chunks
    \/ load_chunks
    \/ unload_chunks
    \/ move_player
    \/ turn_camera

Spec == Init /\ [][Next]_vars

(***************************************************************************)
(* all_chunks on its own: a pose and a radius are drawn, and one step      *)
(* computes the candidates into last_log.                                  *)
(***************************************************************************)
\* viewer positions in half blocks, on both sides of the origin
SelectorPositions ==
    {<<16, 16, 16>>, <<48, 16, 16>>, <<-16, 16, 16>>, <<-1, 40, -33>>, <<31, -48, 5>>}

\* forward vectors along the axes and between them.  None of them has a
\* neighbour direction at exactly 0.5 within the radii tried, so that the
\* rounding of the f32 dot product decides nothing.
SelectorForwards ==
    {<<1, 0, 0>>, <<-1, 0, 0>>, <<0, 1, 0>>, <<0, -1, 0>>, <<0, 0, 1>>, <<0, 0, -1>>,
     <<2, 1, 0>>, <<1, 1, 1>>, <<-1, -2, 2>>, <<3, 0, -1>>}

SelectorDistances == {0, 1, 2}

SelectorInit ==
    /\ generate_queue = << >>
    /\ load_queue = << >>
    /\ unload_queue = << >>
    /\ loaded = << >>
    /\ render_distance \in SelectorDistances
    /\ chunks = << >>
    /\ seed \in Seeds
    /\ entities = {}
    /\ player \in {Some(q) : q \in SelectorPositions}
    /\ camera \in {Some(g) : g \in SelectorForwards}
    /\ panicked = FALSE
    /\ writes = << >>
    /\ admit_ticket = << >>
    /\ unload_ticket = << >>
    /\ moves = 0
    /\ last_op = "init"
    /\ last_log = << >>
    /\ last_wanted = << >>
    /\ tasks = << >>
    /\ args = None
    /\ result = None

run_all_chunks ==
    /\ last_op = "init"
    /\ last_op' = "all_chunks"
    /\ last_log' = all_chunks(Unwrap(player), Unwrap(camera), render_distance)
    /\ UNCHANGED <<call, last_wanted, tasks>>
    /\ UNCHANGED <<generate_queue, load_queue, unload_queue, loaded, render_distance,
                   chunks, seed, entities, player, camera, panicked, writes,
                   admit_ticket, unload_ticket, moves>>

SelectorNext == run_all_chunks

SelectorSpec == SelectorInit /\ [][SelectorNext]_vars

(***************************************************************************)
(* Properties.                                                             *)
(***************************************************************************)
\* the step was a run of gather_chunks that returned
GatherRan == last_op' = "gather" /\ ~panicked'

\* the selector's answer for the viewer as it stands
Wanted == selected[Unwrap(player), Unwrap(camera), render_distance]

ViewerPresent == player # None /\ camera # None

\* q is q0 with n elements pushed on its front
GrownAtFront(q0, q, n) ==
    /\ Len(q) = Len(q0) + n
    /\ \A i \in 1..Len(q0) : q[n + i] = q0[i]

\* C1: no coordinate is in more than one of generate_queue, load_queue and
\* unload_queue, after any sequence of runs of the four systems and any
\* movement of the viewer.
C1_QueuesExclusive ==
    /\ Range(generate_queue) \cap Range(load_queue) = {}
    /\ Range(generate_queue) \cap Range(unload_queue) = {}
    /\ Range(load_queue) \cap Range(unload_queue) = {}

\* a gather ran with coordinates waiting in generate_queue while one that
\* waits in unload_queue was wanted again
C1_Witness ==
    /\ last_op = "gather"
    /\ ViewerPresent
    /\ generate_queue # << >>
    /\ \E c \in Range(unload_queue) : c \in Range(Wanted)

\* C2: one run of gather_chunks adds at most 16 coordinates to
\* generate_queue.
C2_AdmissionCapped ==
    [][GatherRan =>
        /\ Len(generate_queue') <= Len(generate_queue) + 16
        /\ Cardinality(Range(generate_queue') \ Range(generate_queue)) <= 16]_vars

\* a gather admitted 16 coordinates and left a qualifying one out
C2_Witness ==
    /\ last_op = "gather"
    /\ ViewerPresent
    /\ Len(last_log) = 16
    /\ \E c \in Range(Wanted) :
          /\ c \notin Range(generate_queue) \cup Range(load_queue)
          /\ c \notin DOMAIN loaded
          /\ c \notin DOMAIN chunks

\* c passes the four conditions of admission in the state before the gather
C3_Qualifies(c) ==
    /\ c \notin Range(generate_queue)
    /\ c \notin Range(load_queue)
    /\ c \notin DOMAIN loaded
    /\ ~(c \in DOMAIN chunks /\ chunks[c].empty)

\* C3: gather_chunks adds to generate_queue exactly the wanted coordinates
\* that are not in generate_queue, not in load_queue, not loaded and not
\* known-empty, in selector order up to the cap of 16: the first 16 of them,
\* and all of them when at most 16 qualify.
C3_AdmitsTheQualifying ==
    [][GatherRan =>
        LET q == {i \in 1..Len(Wanted) : C3_Qualifies(Wanted[i])}
            first == {i \in q : Cardinality({j \in q : j < i}) < 16}
        IN /\ Range(generate_queue') \ Range(generate_queue) = {Wanted[i] : i \in first}
           /\ GrownAtFront(generate_queue, generate_queue', Cardinality(first))
           /\ (Cardinality(q) <= 16 => first = q)]_vars

\* a gather admitted coordinates while the wanted set held a loaded one and
\* a known-empty one
C3_Witness ==
    /\ last_op = "gather"
    /\ ViewerPresent
    /\ last_log # << >>
    /\ \E c \in Range(Wanted) : c \in DOMAIN loaded
    /\ \E c \in Range(Wanted) : c \in DOMAIN chunks /\ chunks[c].empty

\* C4: gather_chunks adds to unload_queue exactly the loaded coordinates
\* that are not wanted and not already in unload_queue; a loaded coordinate
\* that is wanted is not enqueued.
C4_UnloadsTheUnwanted ==
    [][GatherRan =>
        LET gone == {c \in DOMAIN loaded :
                        c \notin Range(Wanted) /\ c \notin Range(unload_queue)}
        IN /\ Range(unload_queue') \ Range(unload_queue) = gone
           /\ GrownAtFront(unload_queue, unload_queue', Cardinality(gone))
           /\ loaded' = loaded
           /\ \A c \in DOMAIN loaded \cap Range(Wanted) :
                 c \in Range(unload_queue') => c \in Range(unload_queue)]_vars

\* a gather has queued a loaded coordinate for unload and kept a wanted one
C4_Witness ==
    /\ last_op = "gather"
    /\ ViewerPresent
    /\ \E c \in Range(unload_queue) : c \in DOMAIN loaded /\ c \notin Range(Wanted)
    /\ \E c \in DOMAIN loaded : c \in Range(Wanted) /\ c \notin Range(unload_queue)

\* C5: generating a coordinate that is in the Chunk Store changes nothing:
\* over any step a present coordinate stays present with the same data and
\* is not written again, so that every coordinate is written at most once.
C5_GeneratedOnce ==
    [][/\ \A c \in DOMAIN chunks :
             /\ c \in DOMAIN chunks'
             /\ chunks'[c] = chunks[c]
             /\ writes'[c] = writes[c]
       /\ \A c \in DOMAIN chunks' : writes'[c] = 1]_vars

\* a generate run came to a coordinate it had generated before, as the
\* neighbour of a coordinate it popped earlier
C5_Witness ==
    /\ last_op = "generate"
    /\ \E i, j \in 1..Len(last_log) :
          /\ i < j
          /\ last_log[j] \in Range(adjacent(last_log[i]))
          /\ writes[last_log[j]] = 1

\* the coordinates a state speaks of
Mentioned ==
    DOMAIN chunks \cup DOMAIN loaded \cup Range(generate_queue) \cup Range(load_queue)
    \cup (IF ViewerPresent THEN Range(Wanted) ELSE {})

\* C6: is_chunk_empty(c) is true iff c is in the Chunk Store and its data
\* is empty; it is false for a coordinate never generated, so that gather
\* admits a wanted coordinate never generated (when it is in no queue, not
\* loaded and among the first 16) and does not admit a known-empty one.
C6_EmptyMeansGeneratedEmpty ==
    [][/\ \A c \in Mentioned :
             is_chunk_empty(chunks, c) <=> (c \in DOMAIN chunks /\ chunks[c].empty)
       /\ \A c \in Mentioned : c \notin DOMAIN chunks => ~is_chunk_empty(chunks, c)
       /\ GatherRan =>
             \A i \in 1..Len(Wanted) :
                LET c == Wanted[i]
                    free == /\ c \notin Range(generate_queue) \cup Range(load_queue)
                            /\ c \notin DOMAIN loaded
                IN /\ (/\ free
                       /\ c \notin DOMAIN chunks
                       /\ Cardinality({j \in 1..(i - 1) : C3_Qualifies(Wanted[j])}) < 16)
                      => c \in Range(generate_queue')
                   /\ (free /\ c \in DOMAIN chunks /\ chunks[c].empty)
                      => c \notin Range(generate_queue')]_vars

\* a gather admitted a coordinate never generated and passed over a wanted
\* one that is known-empty
C6_Witness ==
    /\ last_op = "gather"
    /\ ViewerPresent
    /\ \E c \in Range(last_log) : c \notin DOMAIN chunks
    /\ \E c \in Range(Wanted) :
          /\ c \in DOMAIN chunks /\ chunks[c].empty
          /\ c \notin Range(generate_queue) \cup Range(load_queue)
          /\ c \notin DOMAIN loaded

\* C7: whenever load_chunks meshes a coordinate, the Chunk Store holds data
\* for it and for its six neighbours: the unwrap() of the centre's data does
\* not panic and no neighbour lookup returns None.
C7_MeshInputsPresent ==
    [][last_op' = "load" =>
        /\ ~panicked'
        /\ \A i \in 1..Len(last_log') :
              LET c == last_log'[i]
              IN ~is_chunk_empty(chunks, c) =>
                    /\ c \in DOMAIN chunks
                    /\ \A k \in 1..6 : adjacent(c)[k] \in DOMAIN chunks
                    /\ \A k \in 1..6 : adjacent_chunk_data(chunks, c)[k] # None]_vars

\* a load run meshed a coordinate and loaded it
C7_Witness ==
    /\ last_op = "load"
    /\ \E c \in Range(last_log) : c \in DOMAIN loaded /\ ~chunks[c].empty

\* the coordinates at i and j of a drain's log were admitted by one gather,
\* the first of them emitted earlier by the selector
EarlierOfOneGather(log, i, j) ==
    /\ log[i] \in DOMAIN admit_ticket
    /\ log[j] \in DOMAIN admit_ticket
    /\ admit_ticket[log[i]][1] = admit_ticket[log[j]][1]
    /\ admit_ticket[log[i]][2] < admit_ticket[log[j]][2]

\* C8: among the coordinates one gather admitted, the generate drain and
\* the load drain both handle a coordinate the selector emitted earlier
\* before one it emitted later.
C8_NearerServicedFirst ==
    [][(last_op' = "generate" \/ last_op' = "load") =>
        \A i, j \in 1..Len(last_log') :
            EarlierOfOneGather(last_log', i, j) => i < j]_vars

\* the part of C8 that holds: the load drain follows the selector's order
C8_LoadDrainInSelectorOrder ==
    [][last_op' = "load" =>
        \A i, j \in 1..Len(last_log') :
            EarlierOfOneGather(last_log', i, j) => i < j]_vars

\* C9: unload_chunks dematerializes a coordinate whose unload a later gather
\* decided before one whose unload an earlier gather decided.
C9_UnloadsLatestFirst ==
    [][last_op' = "unload" =>
        /\ Len(last_log') = Len(unload_queue)
        /\ \A i \in 1..Len(last_log') :
              /\ last_log'[i][1] = unload_queue[i]
              /\ last_log'[i][2] = unload_ticket[unload_queue[i]]
        /\ \A i, j \in 1..Len(last_log') :
              (/\ last_log'[i][1] \in DOMAIN loaded
               /\ last_log'[j][1] \in DOMAIN loaded
               /\ unload_ticket[last_log'[i][1]] > unload_ticket[last_log'[j][1]])
              => /\ i < j
                 /\ last_log'[j][1] \notin DOMAIN loaded']_vars

\* an unload run drained what two gathers had decided
C9_Witness ==
    /\ last_op = "unload"
    /\ \E i, j \in 1..Len(last_log) : last_log[i][2] # last_log[j][2]

\* the viewer's chunk of the selector run
ViewerChunk == start_chunk(Unwrap(player))

\* C10: every coordinate all_chunks returns other than the viewer's chunk
\* is within Chebyshev distance max_distance of the viewer's chunk and lies
\* in a direction whose dot product with the forward vector is above 0.5;
\* with max_distance 0 only the viewer's chunk is returned.
C10_WithinConeAndRadius ==
    last_op = "all_chunks" =>
        /\ \A i \in 1..Len(last_log) :
              LET d == Sub(last_log[i], ViewerChunk)
                  f == Unwrap(camera)
              IN last_log[i] # ViewerChunk =>
                    /\ Abs(d[1]) <= render_distance
                    /\ Abs(d[2]) <= render_distance
                    /\ Abs(d[3]) <= render_distance
                    /\ Dot(f, d) > 0
                    /\ 4 * Dot(f, d) * Dot(f, d) > Dot(f, f) * Dot(d, d)
        /\ (render_distance = 0 => last_log = <<ViewerChunk>>)

\* the selector returned a coordinate at the full radius next to one it
\* turned down
C10_Witness ==
    /\ last_op = "all_chunks"
    /\ render_distance = 2
    /\ \E i \in 1..Len(last_log) :
          /\ Chebyshev(Sub(last_log[i], ViewerChunk)) = 2
          /\ \E k \in 1..6 :
                /\ adjacent(last_log[i])[k] \notin Range(last_log)
                /\ Chebyshev(Sub(adjacent(last_log[i])[k], ViewerChunk)) <= 2

(***************************************************************************)
(* The chunk that contains the viewer.                                     *)
(***************************************************************************)
\* chunk_world_pos: the origin of a chunk (chunk.0 * 16), in half blocks
chunk_world_pos(c) ==
    <<2 * chunk_size * c[1], 2 * chunk_size * c[2], 2 * chunk_size * c[3]>>

\* the chunk c lies around the position h on every axis:
\* origin(c) <= h < origin(c) + chunk_size
ChunkContains(c, h) ==
    \A k \in 1..3 :
        /\ chunk_world_pos(c)[k] <= h[k]
        /\ h[k] < chunk_world_pos(c)[k] + 2 * chunk_size

\* C11: the start coordinate all_chunks computes from the viewer position is
\* the chunk that contains the position (chunk_size*c <= position <
\* chunk_size*(c+1) on every axis, negative positions included), and the
\* coordinates all_chunks returns include the chunk containing the viewer.
C11_StartChunkContainsViewer ==
    last_op = "all_chunks" =>
        /\ ChunkContains(start_chunk(Unwrap(player)), Unwrap(player))
        /\ \E i \in 1..Len(last_log) : ChunkContains(last_log[i], Unwrap(player))

\* the part of C11 the code keeps: at a position with no negative coordinate
\* the start coordinate is the containing chunk, and it is returned first
C11_StartChunkOfPositivePosition ==
    (last_op = "all_chunks" /\ \A k \in 1..3 : Unwrap(player)[k] >= 0) =>
        /\ ChunkContains(start_chunk(Unwrap(player)), Unwrap(player))
        /\ last_log[1] = start_chunk(Unwrap(player))

(***************************************************************************)
(* f32 arithmetic on the values the frustum check is run with              *)
(* (world/ecs/camera.rs).  Every value is an integer, which f32 holds and  *)
(* computes exactly; what is kept beside the value is the sign of a zero,  *)
(* because num_traits' Signed::is_negative reads the sign bit.             *)
(***************************************************************************)
\* the f32 written n.0
F(n) == [v |-> n, nz |-> FALSE]

\* f32::is_sign_negative: true of -0.0 as of every value below zero
is_sign_negative(a) == a.v < 0 \/ (a.v = 0 /\ a.nz)

\* num_traits::Signed::is_negative for f32
is_negative(a) == is_sign_negative(a)

\* -a: the sign bit is flipped
FNeg(a) == IF a.v = 0 THEN [v |-> 0, nz |-> ~a.nz] ELSE F(-a.v)

\* a * b: a zero product has the sign of its factors' signs
FMul(a, b) ==
    [v |-> a.v * b.v,
     nz |-> a.v * b.v = 0 /\ (is_sign_negative(a) # is_sign_negative(b))]

\* a + b: a zero sum is -0.0 only when both terms are -0.0
FAdd(a, b) ==
    [v |-> a.v + b.v,
     nz |-> a.v = 0 /\ b.v = 0 /\ a.nz /\ b.nz]

FSub(a, b) == FAdd(a, FNeg(b))

\* vector3!(x, y, z)
V3(t) == <<F(t[1]), F(t[2]), F(t[3])>>

VNeg(a) == <<FNeg(a[1]), FNeg(a[2]), FNeg(a[3])>>

VAdd(a, b) == <<FAdd(a[1], b[1]), FAdd(a[2], b[2]), FAdd(a[3], b[3])>>

VSub(a, b) == <<FSub(a[1], b[1]), FSub(a[2], b[2]), FSub(a[3], b[3])>>

\* a * k for a scalar k
VScale(a, k) == <<FMul(a[1], k), FMul(a[2], k), FMul(a[3], k)>>

\* cgmath's dot: the three products summed from the left
VDot(a, b) == FAdd(FAdd(FMul(a[1], b[1]), FMul(a[2], b[2])), FMul(a[3], b[3]))

\* cgmath's cross
VCross(a, b) ==
    <<FSub(FMul(a[2], b[3]), FMul(a[3], b[2])),
      FSub(FMul(a[3], b[1]), FMul(a[1], b[3])),
      FSub(FMul(a[1], b[2]), FMul(a[2], b[1]))>>

\* the greatest common divisor of the sizes of the components of a vector
\* that is not zero
CommonDivisor(a) ==
    LET m == Max({Abs(a[1].v), Abs(a[2].v), Abs(a[3].v)})
    IN Max({g \in 1..m : \A k \in 1..3 : a[k].v % g = 0})

\* normalize: a over its length.  The length of the vectors normalised here
\* is 1 or irrational; the vector is kept as the shortest integer vector
\* along a, a positive multiple of the unit vector, which leaves the sign of
\* every product and sum computed from it as it is.  (A zero vector, whose
\* normalize is NaN, is not among the inputs.)
normalize(a) ==
    LET g == CommonDivisor(a)
    IN [k \in 1..3 |-> [v |-> a[k].v \div g, nz |-> a[k].nz]]

(***************************************************************************)
(* Plane and ViewFrustum (world/ecs/camera.rs).                            *)
(***************************************************************************)
\* Plane::distance
distance(p, pos) == VDot(VSub(pos, p.point), p.normal)

\* as far_plane, with the normal of the near plane
far_plane_facing_away(pos, z, far) ==
    [point |-> VSub(pos, VScale(z, far)), normal |-> VNeg(z)]

\* planes[1] of ViewFrustum::new: through fc, facing the viewer
far_plane(pos, z, far) ==
    [point |-> VSub(pos, VScale(z, far)), normal |-> z]

\* ViewFrustum::new.  tan_half_fov is the value of (fov / 2.0).tan()
ViewFrustum_new(pos, dir, up, tan_half_fov, near, far, aspect_ratio) ==
    LET h_near == FMul(tan_half_fov, near)
        w_near == FMul(h_near, aspect_ratio)
        z == VNeg(dir)
        x == normalize(VCross(up, z))
        y == VCross(z, x)
        nc == VSub(pos, VScale(z, near))
        top == VAdd(nc, VScale(y, h_near))
        bottom == VSub(nc, VScale(y, h_near))
        left == VSub(nc, VScale(x, w_near))
        right == VAdd(nc, VScale(x, w_near))
    IN [planes |->
          << [point |-> nc, normal |-> VNeg(z)],
             far_plane(pos, z, far),
             [point |-> top, normal |-> VCross(normalize(VSub(top, pos)), x)],
             [point |-> bottom, normal |-> VCross(x, normalize(VSub(bottom, pos)))],
             [point |-> left, normal |-> VCross(normalize(VSub(left, pos)), y)],
             [point |-> right, normal |-> VCross(y, normalize(VSub(right, pos)))] >>]

\* Bounds::vertices: the eight corners of the box from min to max
vertices(bounds) ==
    LET lo == bounds.min
        hi == bounds.max
    IN << V3(<<lo[1], lo[2], lo[3]>>), V3(<<hi[1], lo[2], lo[3]>>),
          V3(<<lo[1], hi[2], lo[3]>>), V3(<<hi[1], hi[2], lo[3]>>),
          V3(<<lo[1], lo[2], hi[3]>>), V3(<<hi[1], lo[2], hi[3]>>),
          V3(<<lo[1], hi[2], hi[3]>>), V3(<<hi[1], hi[2], hi[3]>>) >>

RECURSIVE count_inside(_, _, _, _, _)
\* the loop over the vertices for the plane p, from vs[i] on: v_in when the
\* loop ends or breaks
count_inside(p, vs, i, v_in, v_out) ==
    IF i > Len(vs) THEN v_in
    ELSE LET out == is_negative(distance(p, vs[i]))
             v_out1 == IF out THEN v_out + 1 ELSE v_out
             v_in1 == IF out THEN v_in ELSE v_in + 1
         IN IF v_out1 > 0 /\ v_in1 > 0 THEN v_in1
            ELSE count_inside(p, vs, i + 1, v_in1, v_out1)

RECURSIVE contains_box_from(_, _, _)
\* the loop over the planes, from planes[k] on
contains_box_from(planes, bounds, k) ==
    IF k > Len(planes) THEN TRUE
    ELSE IF count_inside(planes[k], vertices(bounds), 1, 0, 0) = 0 THEN FALSE
    ELSE contains_box_from(planes, bounds, k + 1)

\* ViewFrustum::contains_box
contains_box(frustum, bounds) == contains_box_from(frustum.planes, bounds, 1)

(***************************************************************************)
(* Camera::is_mesh_visible on its own: a frustum is built from a viewer    *)
(* and asked about one box.                                                *)
(***************************************************************************)
\* viewer positions
FrustumPositions == {<<0, 0, 0>>, <<2, -1, 3>>}

\* look direction and up vector: unit vectors along the axes, at right angles
FrustumOrientations ==
    { <<<<0, 0, 1>>, <<0, 1, 0>>>>, <<<<0, 0, -1>>, <<0, 1, 0>>>>,
      <<<<1, 0, 0>>, <<0, 1, 0>>>>, <<<<-1, 0, 0>>, <<0, 1, 0>>>>,
      <<<<0, 1, 0>>, <<0, 0, -1>>>> }

\* (fov / 2.0).tan(), the near and far distances, the aspect ratio
FrustumTans == {1, 2}

FrustumNears == {1, 2}

FrustumFars == {3, 5}

FrustumAspects == {1, 2}

\* how far from the viewer, along an axis, a box may begin
BoxOffsets == {0, 1, 3, 5, 6}

\* the extents of a box: none, a cube, a slab
BoxSizes == {<<0, 0, 0>>, <<1, 1, 1>>, <<2, 1, 3>>}

Axes == {<<1, 0, 0>>, <<-1, 0, 0>>, <<0, 1, 0>>, <<0, -1, 0>>, <<0, 0, 1>>, <<0, 0, -1>>}

\* the boxes that begin on an axis through the viewer at pos
Boxes(pos) ==
    {[min |-> <<pos[1] + k * a[1], pos[2] + k * a[2], pos[3] + k * a[3]>>,
      max |-> <<pos[1] + k * a[1] + s[1], pos[2] + k * a[2] + s[2],
                pos[3] + k * a[3] + s[3]>>] :
        k \in BoxOffsets, a \in Axes, s \in BoxSizes}

FrustumInit ==
    /\ generate_queue = << >>
    /\ load_queue = << >>
    /\ unload_queue = << >>
    /\ loaded = << >>
    /\ render_distance = 0
    /\ chunks = << >>
    /\ seed = 0
    /\ entities = {}
    /\ player = None
    /\ camera = None
    /\ panicked = FALSE
    /\ writes = << >>
    /\ admit_ticket = << >>
    /\ unload_ticket = << >>
    /\ moves = 0
    /\ last_op = "init"
    /\ last_log = << >>
    /\ last_wanted = << >>
    /\ tasks = << >>
    /\ \E pos \in FrustumPositions, o \in FrustumOrientations, t \in FrustumTans,
          near \in FrustumNears, far \in FrustumFars, aspect \in FrustumAspects :
          \E b \in Boxes(pos) :
             args = Some([pos |-> pos, dir |-> o[1], up |-> o[2], tan_half_fov |-> t,
                          near |-> near, far |-> far, aspect_ratio |-> aspect,
                          bounds |-> b])
    /\ result = None

\* the frustum is_mesh_visible builds for the arguments a
frustum_of(a) ==
    ViewFrustum_new(V3(a.pos), V3(a.dir), V3(a.up), F(a.tan_half_fov), F(a.near),
                    F(a.far), F(a.aspect_ratio))

is_mesh_visible ==
    /\ last_op = "init"
    /\ last_op' = "is_mesh_visible"
    /\ result' = Some(contains_box(frustum_of(Unwrap(args)), Unwrap(args).bounds))
    /\ UNCHANGED <<generate_queue, load_queue, unload_queue, loaded, render_distance,
                   chunks, seed, entities, player, camera, panicked, writes,
                   admit_ticket, unload_ticket, moves, last_log, last_wanted, tasks, args>>

FrustumNext == is_mesh_visible

FrustumSpec == FrustumInit /\ [][FrustumNext]_vars

\* the signed distance of Plane::distance as a number: (pos - point) . normal
SignedDistance(p, pos) ==
    (pos[1].v - p.point[1].v) * p.normal[1].v
    + (pos[2].v - p.point[2].v) * p.normal[2].v
    + (pos[3].v - p.point[3].v) * p.normal[3].v

Asked == Unwrap(args)

Corners == Range(vertices(Asked.bounds))

\* C12: contains_box returns true iff every one of the six planes has at
\* least one of the eight corners at a signed distance that is not negative,
\* the signed distance of a point p being (p - plane.point) . plane.normal.
C12_VisibleIffEveryPlaneHasACornerInside ==
    last_op = "is_mesh_visible" =>
        (Unwrap(result) <=>
            \A k \in 1..6 : \E v \in Corners :
                SignedDistance(frustum_of(Asked).planes[k], v) >= 0)

\* what contains_box computes: the test of a corner is the sign bit of the
\* distance, which is set for -0.0
C12_VisibleIffEveryPlaneHasASignBitClear ==
    last_op = "is_mesh_visible" =>
        (Unwrap(result) <=>
            \A k \in 1..6 : \E v \in Corners :
                ~is_sign_negative(distance(frustum_of(Asked).planes[k], v)))

\* how far the point v lies from the viewer along the view direction
Depth(v) ==
    (v[1].v - Asked.pos[1]) * Asked.dir[1] + (v[2].v - Asked.pos[2]) * Asked.dir[2]
    + (v[3].v - Asked.pos[3]) * Asked.dir[3]

AllBeyondFar == \A v \in Corners : Depth(v) > Asked.far

AllBehindNear == \A v \in Corners : Depth(v) < Asked.near

\* C13: for a frustum built by ViewFrustum::new with 0 < near < far, a box
\* whose corners all lie farther than far along the view direction, and a
\* box whose corners all lie nearer than near, is not classified visible.
C13_BeyondFarOrBehindNearIsCulled ==
    (/\ last_op = "is_mesh_visible"
     /\ 0 < Asked.near /\ Asked.near < Asked.far
     /\ AllBeyondFar \/ AllBehindNear) => Unwrap(result) = FALSE

\* a box beyond the far plane that the four side planes let pass was asked
\* about
C13_Witness ==
    /\ last_op = "is_mesh_visible"
    /\ AllBeyondFar
    /\ \A k \in 3..6 : \E v \in Corners :
          SignedDistance(frustum_of(Asked).planes[k], v) > 0

\* C14: for every frustum built by ViewFrustum::new from a viewer position,
\* the box of size zero at the viewer position is classified visible.
C14_ViewerPointIsVisible ==
    (/\ last_op = "is_mesh_visible"
     /\ Asked.bounds.min = Asked.pos
     /\ Asked.bounds.max = Asked.pos) => Unwrap(result) = TRUE

\* what the code does with that box whenever near is above zero: the viewer
\* is behind the near plane, at distance -near, and the box is culled
C14_ViewerPointIsCulled ==
    (/\ last_op = "is_mesh_visible"
     /\ Asked.near > 0
     /\ Asked.bounds.min = Asked.pos
     /\ Asked.bounds.max = Asked.pos) => Unwrap(result) = FALSE

(***************************************************************************)
(* The ordering of chunks by direction (world/ecs/chunk_loader.rs): chunks *)
(* are pairs <<x, z>>, and a score is -infinity or the fraction num / den  *)
(* with den above zero.                                                    *)
(***************************************************************************)
MinusInfinity == [inf |-> TRUE, num |-> 0, den |-> 1]

\* chunk_world_pos of the two-dimensional loader: (x * 16, 0, z * 16)
chunk_world_pos_2d(chunk) == <<chunk[1] * chunk_size, 0, chunk[2] * chunk_size>>

\* chunk_distance, squared: the f32 returned is its square root
chunk_distance_squared(chunk1, chunk2) ==
    Abs(chunk2[1] - chunk1[1]) * Abs(chunk2[1] - chunk1[1])
    + Abs(chunk2[2] - chunk1[2]) * Abs(chunk2[2] - chunk1[2])

\* as chunk_camera_direction, with the direction taken from the camera to
\* the chunk
chunk_camera_direction_to_chunk(camera_chunk, camera_forward, chunk) ==
    LET d == Sub(chunk_world_pos_2d(chunk), chunk_world_pos_2d(camera_chunk))
    IN IF chunk_distance_squared(camera_chunk, chunk) = 0 THEN MinusInfinity
       ELSE [inf |-> FALSE, num |-> Dot(camera_forward, d),
             den |-> chunk_size * chunk_distance_squared(camera_chunk, chunk)]

\* chunk_camera_direction: dot / dist, where dot = forward . d / |d| for the
\* vector d from the chunk to the camera and dist = |d| / 16, so that the
\* quotient is (forward . d) / (16 dist^2).  camera_forward is an integer
\* vector F standing for F / |F|: every score of one sort carries the same
\* factor 1 / |F|, which is left out.
chunk_camera_direction(camera_chunk, camera_forward, chunk) ==
    LET d == Sub(chunk_world_pos_2d(camera_chunk), chunk_world_pos_2d(chunk))
    IN IF chunk_distance_squared(camera_chunk, chunk) = 0 THEN MinusInfinity
       ELSE [inf |-> FALSE, num |-> Dot(camera_forward, d),
             den |-> chunk_size * chunk_distance_squared(camera_chunk, chunk)]

\* f32::total_cmp(a, b) is Less
ScoreLess(a, b) ==
    IF a.inf \/ b.inf THEN a.inf /\ ~b.inf
    ELSE a.num * b.den < b.num * a.den

\* sort_by on the chunks cs: the orders that ascend in the score.  Chunks
\* whose scores are equal as fractions may come out either way round.
sort_by_direction(cs, camera_chunk, camera_forward) ==
    {s \in Orderings(cs) :
        \A i, j \in 1..Len(s) :
            i < j => ~ScoreLess(chunk_camera_direction(camera_chunk, camera_forward, s[j]),
                                chunk_camera_direction(camera_chunk, camera_forward, s[i]))}

\* the chunks a list to sort is drawn from: those of test_chunk_sorting and
\* others around them
SortChunks ==
    {<<-5, 5>>, <<-1, 0>>, <<0, 0>>, <<1, 0>>, <<1, 1>>, <<5, 0>>,
     <<0, 1>>, <<0, -1>>, <<-1, -1>>, <<2, 0>>}

SortCameraChunks == {<<0, 0>>, <<1, 1>>}

SortForwards == {<<1, 0, 0>>, <<-1, 0, 0>>, <<0, 0, 1>>, <<1, 0, 1>>, <<1, 1, 0>>}

\* how many chunks a list holds
SortLen == 4

SortInit ==
    /\ generate_queue = << >>
    /\ load_queue = << >>
    /\ unload_queue = << >>
    /\ loaded = << >>
    /\ render_distance = 0
    /\ chunks = << >>
    /\ seed = 0
    /\ entities = {}
    /\ player = None
    /\ camera = None
    /\ panicked = FALSE
    /\ writes = << >>
    /\ admit_ticket = << >>
    /\ unload_ticket = << >>
    /\ moves = 0
    /\ last_op = "init"
    /\ last_log = << >>
    /\ last_wanted = << >>
    /\ tasks = << >>
    /\ \E cs \in SUBSET SortChunks, cc \in SortCameraChunks, f \in SortForwards :
          /\ Cardinality(cs) = SortLen
          /\ args = Some([chunks |-> cs, camera_chunk |-> cc, camera_dir |-> f])
    /\ result = None

\* the sort of test_chunk_sorting
sort_chunks ==
    /\ last_op = "init"
    /\ last_op' = "sort"
    /\ \E s \in sort_by_direction(Unwrap(args).chunks, Unwrap(args).camera_chunk,
                                  Unwrap(args).camera_dir) : result' = Some(s)
    /\ UNCHANGED <<generate_queue, load_queue, unload_queue, loaded, render_distance,
                   chunks, seed, entities, player, camera, panicked, writes,
                   admit_ticket, unload_ticket, moves, last_log, last_wanted, tasks, args>>

SortNext == sort_chunks

SortSpec == SortInit /\ [][SortNext]_vars

Sorted == Unwrap(result)

\* forward . (chunk - camera chunk), over the ground plane
Ahead(c) ==
    Dot(Asked.camera_dir,
        Sub(chunk_world_pos_2d(c), chunk_world_pos_2d(Asked.camera_chunk)))

\* the chunk lies on the line through the camera chunk along forward
DirectlyForward(c) ==
    LET d == Sub(chunk_world_pos_2d(c), chunk_world_pos_2d(Asked.camera_chunk))
    IN /\ Ahead(c) > 0
       /\ Asked.camera_dir[2] = 0
       /\ d[1] * Asked.camera_dir[3] = d[3] * Asked.camera_dir[1]

\* C15: sorting by ascending chunk_camera_direction puts the camera's own
\* chunk first (its score is the sentinel -infinity), every chunk in front
\* of the camera before every chunk behind it, and of the chunks directly
\* forward the nearer first; for a camera at <<0, 0>> facing +x the order
\* starts <<0, 0>>, <<1, 0>>, both before <<-1, 0>> and <<-5, 5>>.
C15_ForwardChunksSortFirst ==
    last_op = "sort" =>
        /\ chunk_camera_direction(Asked.camera_chunk, Asked.camera_dir,
                                  Asked.camera_chunk) = MinusInfinity
        /\ Asked.camera_chunk \in Asked.chunks => Sorted[1] = Asked.camera_chunk
        /\ \A i, j \in 1..Len(Sorted) :
              (Ahead(Sorted[i]) > 0 /\ Ahead(Sorted[j]) < 0) => i < j
        /\ \A i, j \in 1..Len(Sorted) :
              (/\ DirectlyForward(Sorted[i]) /\ DirectlyForward(Sorted[j])
               /\ chunk_distance_squared(Asked.camera_chunk, Sorted[i])
                    < chunk_distance_squared(Asked.camera_chunk, Sorted[j])) => i < j
        /\ (/\ Asked.camera_chunk = <<0, 0>> /\ Asked.camera_dir = <<1, 0, 0>>
            /\ {<<0, 0>>, <<1, 0>>} \subseteq Asked.chunks)
           => /\ Sorted[1] = <<0, 0>>
              /\ Sorted[2] = <<1, 0>>

\* the camera at <<0, 0>> facing +x sorted a list holding its own chunk, the
\* chunk in front and the two chunks behind of test_chunk_sorting
C15_Witness ==
    /\ last_op = "sort"
    /\ Asked.camera_chunk = <<0, 0>>
    /\ Asked.camera_dir = <<1, 0, 0>>
    /\ Asked.chunks = {<<0, 0>>, <<1, 0>>, <<-1, 0>>, <<-5, 5>>}
    /\ Sorted[1] = <<0, 0>> /\ Sorted[2] = <<1, 0>>

\* C16: when gather_chunks runs and there is no unique player or camera, the
\* tick is a no-op the pipeline recovers from: the three queues, the Loaded
\* Set and the Chunk Store are unchanged and the process has not terminated.
C16_MissingViewerIsRecoverableNoOp ==
    [][(last_op' = "gather" /\ gather_panics) =>
          /\ UNCHANGED <<generate_queue, load_queue, unload_queue, loaded, chunks>>
          /\ ~panicked']_vars

\* what the code does: gather_chunks without a viewer changes no queue, and
\* the expect() panics
C16_MissingViewerPanics ==
    [][(last_op' = "gather" /\ gather_panics) =>
          /\ UNCHANGED <<generate_queue, load_queue, unload_queue, loaded, chunks>>
          /\ panicked']_vars

\* C17: a coordinate that left the wanted set before its queued work was
\* done is discarded when load_chunks completes the work: a coordinate of
\* load_queue that the last gather did not select is not in the Loaded Set
\* after the load.
C17_UnwantedWorkIsDiscarded ==
    [][(last_op' = "load" /\ ~panicked') =>
          \A c \in Range(load_queue) :
              c \notin Range(last_wanted) => c \notin DOMAIN loaded']_vars

\* what the code does: load_chunks asks nothing about the wanted set, and
\* loads every coordinate of load_queue whose data is not empty
C17_UnwantedWorkIsLoaded ==
    [][(last_op' = "load" /\ ~panicked') =>
          \A c \in Range(load_queue) :
              (c \notin Range(last_wanted) /\ ~is_chunk_empty(chunks, c))
                 => c \in DOMAIN loaded']_vars

(***************************************************************************)
(* The mesher of world/mod.rs: World holds one chunk of blocks, and        *)
(* generate_chunk_mesh turns it into a mesh.  A mesh is kept as the faces  *)
(* it holds, in the order they are appended: a face is <<block, normal>>.  *)
(***************************************************************************)
\* the indices of the blocks along one axis (0..16 in the program)
MeshCells == {0, 1}

MeshBlocks == MeshCells \X MeshCells \X MeshCells

\* the blocks in the order of the loops over x, y and z
RECURSIVE InLoopOrder(_)
InLoopOrder(S) ==
    IF S = {} THEN << >>
    ELSE LET first == CHOOSE b \in S :
                 \A c \in S :
                     \/ b[1] < c[1]
                     \/ (b[1] = c[1] /\ b[2] < c[2])
                     \/ (b[1] = c[1] /\ b[2] = c[2] /\ b[3] <= c[3])
         IN <<first>> \o InLoopOrder(S \ {first})

\* render::mesh::primitives::cube: 24 vertices, four to each of the six
\* faces of the unit cube
cube ==
    << <<1, 0, 0>>, <<-1, 0, 0>>, <<0, 1, 0>>, <<0, -1, 0>>, <<0, 0, 1>>, <<0, 0, -1>> >>

RECURSIVE append_cubes(_, _, _)
\* the loops of generate_chunk_mesh over the blocks bs[i..]
append_cubes(blocks, bs, i) ==
    IF i > Len(bs) THEN << >>
    ELSE (IF blocks[bs[i]] THEN [k \in 1..Len(cube) |-> <<bs[i], cube[k]>>] ELSE << >>)
         \o append_cubes(blocks, bs, i + 1)

\* World::generate_chunk_mesh of world/mod.rs
generate_chunk_mesh_of_blocks(blocks) ==
    append_cubes(blocks, InLoopOrder(DOMAIN blocks), 1)

MeshInit ==
    /\ generate_queue = << >>
    /\ load_queue = << >>
    /\ unload_queue = << >>
    /\ loaded = << >>
    /\ render_distance = 0
    /\ chunks = << >>
    /\ seed = 0
    /\ entities = {}
    /\ player = None
    /\ camera = None
    /\ panicked = FALSE
    /\ writes = << >>
    /\ admit_ticket = << >>
    /\ unload_ticket = << >>
    /\ moves = 0
    /\ last_op = "init"
    /\ last_log = << >>
    /\ last_wanted = << >>
    /\ tasks = << >>
    /\ \E b \in [MeshBlocks -> BOOLEAN] : args = Some([blocks |-> b])
    /\ result = None

mesh_chunk ==
    /\ last_op = "init"
    /\ last_op' = "mesh"
    /\ result' = Some(generate_chunk_mesh_of_blocks(Unwrap(args).blocks))
    /\ UNCHANGED <<generate_queue, load_queue, unload_queue, loaded, render_distance,
                   chunks, seed, entities, player, camera, panicked, writes,
                   admit_ticket, unload_ticket, moves, last_log, last_wanted, tasks, args>>

MeshNext == mesh_chunk

MeshSpec == MeshInit /\ [][MeshNext]_vars

\* the faces of the mesh returned
Faces == Range(Unwrap(result))

\* the block beside the block b in the direction n
Beside(b, n) == <<b[1] + n[1], b[2] + n[2], b[3] + n[3]>>

\* C18: the mesher emits a face of a solid voxel in a direction only if the
\* voxel beside it in that direction is absent or not solid: no face lies
\* between two solid voxels, and a solid voxel at the edge of the chunk, where
\* nothing is known of what lies beside it, has its face emitted.
C18_FacesOnlyTowardsAir ==
    last_op = "mesh" =>
        /\ \A f \in Faces :
              /\ Asked.blocks[f[1]]
              /\ Beside(f[1], f[2]) \in MeshBlocks => ~Asked.blocks[Beside(f[1], f[2])]
        /\ \A b \in MeshBlocks : \A k \in 1..6 :
              (Asked.blocks[b] /\ Beside(b, cube[k]) \notin MeshBlocks)
                 => <<b, cube[k]>> \in Faces

\* what the code does: every solid voxel gets its whole cube, six faces,
\* whatever lies beside it
C18_EverySolidVoxelGetsSixFaces ==
    last_op = "mesh" =>
        Faces = {<<b, cube[k]>> : b \in {c \in MeshBlocks : Asked.blocks[c]}, k \in 1..6}

\* the coordinates that are in the set after the step and were not before
Entered(before, after) == after \ before

\* the coordinates that were in the set before the step and are not after
Left(before, after) == before \ after

\* C19: a coordinate enters load_queue only by being dequeued from
\* generate_queue (the neighbours generated beside it are not pushed), enters
\* the Loaded Set only by being dequeued from load_queue, enters
\* unload_queue only while it is in the Loaded Set, and leaves the Loaded
\* Set only by being dequeued from unload_queue; generate_queue is entered
\* only by a gather.
C19_LifecycleOrder ==
    [][/\ \A c \in Entered(Range(load_queue), Range(load_queue')) :
             c \in Range(generate_queue) /\ c \notin Range(generate_queue')
       /\ \A c \in Entered(DOMAIN loaded, DOMAIN loaded') :
             c \in Range(load_queue) /\ c \notin Range(load_queue')
       /\ \A c \in Entered(Range(unload_queue), Range(unload_queue')) :
             c \in DOMAIN loaded /\ c \in DOMAIN loaded'
       /\ \A c \in Left(DOMAIN loaded, DOMAIN loaded') :
             c \in Range(unload_queue) /\ c \notin Range(unload_queue')
       /\ Entered(Range(generate_queue), Range(generate_queue')) # {}
             => last_op' = "gather"]_vars

\* an unload run dematerialized a coordinate: it has been through every
\* stage
C19_Witness ==
    /\ last_op = "unload"
    /\ last_log # << >>
    /\ \E i \in 1..Len(last_log) :
          /\ last_log[i][1] \in DOMAIN chunks
          /\ last_log[i][1] \notin DOMAIN loaded

\* C20: after load_chunks has run, load_queue is empty, every coordinate it
\* dequeued whose stored data is not empty is in the Loaded Set, and every
\* coordinate it dequeued whose data is empty is not; and no coordinate of
\* the Loaded Set has empty data, in any state.
C20_LoadedIffNotEmpty ==
    [][/\ last_op' = "load" =>
             /\ load_queue' = << >>
             /\ \A c \in Range(load_queue) :
                   /\ (c \in DOMAIN chunks /\ ~chunks[c].empty) => c \in DOMAIN loaded'
                   /\ (c \in DOMAIN chunks /\ chunks[c].empty) => c \notin DOMAIN loaded'
       /\ \A c \in DOMAIN loaded' : c \in DOMAIN chunks' /\ ~chunks'[c].empty]_vars

\* a load run dequeued a coordinate whose data is empty and one whose data
\* is not, and loaded the second alone
C20_Witness ==
    /\ last_op = "load"
    /\ \E i, j \in 1..Len(last_log) :
          /\ chunks[last_log[i]].empty
          /\ last_log[i] \notin DOMAIN loaded
          /\ ~chunks[last_log[j]].empty
          /\ last_log[j] \in DOMAIN loaded

(***************************************************************************)
(* unload_chunks on its own.  The pipeline never leaves in unload_queue a  *)
(* coordinate without a Loaded Set entry, so the branch of unload_chunks   *)
(* for such a coordinate is run here from every value its fields can hold: *)
(* any VecDeque of coordinates, and any HashMap of them to entities.       *)
(***************************************************************************)
UnloadCoords == {<<0, 0, 0>>, <<1, 0, 0>>, <<2, 0, 0>>}

\* the longest unload_queue drawn
UnloadLen == 3

\* the deques of at most n coordinates
UnloadQueues(n) == UNION {[1..k -> UnloadCoords] : k \in 0..n}

\* the i-th of the coordinates, counted along x
UnloadEntityOf(c) == c[1] + 1

UnloadInit ==
    /\ generate_queue = << >>
    /\ load_queue = << >>
    /\ unload_queue \in UnloadQueues(UnloadLen)
    /\ \E ld \in SUBSET UnloadCoords :
          /\ loaded = [c \in ld |-> UnloadEntityOf(c)]
          /\ entities = {UnloadEntityOf(c) : c \in ld}
          /\ args = Some([unload_queue |-> unload_queue, loaded |-> loaded])
    /\ render_distance = 0
    /\ chunks = << >>
    /\ seed = 0
    /\ player = None
    /\ camera = None
    /\ panicked = FALSE
    /\ writes = << >>
    /\ admit_ticket = << >>
    /\ unload_ticket = [c \in Range(unload_queue) |-> 1]
    /\ moves = 0
    /\ last_op = "init"
    /\ last_log = << >>
    /\ last_wanted = << >>
    /\ tasks = << >>
    /\ result = None

UnloadNext == unload_chunks

UnloadSpec == UnloadInit /\ [][UnloadNext]_vars

\* C21: after unload_chunks has run, unload_queue is empty and no coordinate
\* it dequeued has an entry in the Loaded Set; the entities it despawned are
\* those of the dequeued coordinates that had an entry, and every other
\* entry is as it was: a dequeued coordinate without an entry is passed over
\* and changes nothing.
C21_UnloadRemovesTheDequeued ==
    [][last_op' = "unload" =>
          /\ unload_queue' = << >>
          /\ \A c \in Range(unload_queue) : c \notin DOMAIN loaded'
          /\ DOMAIN loaded' = DOMAIN loaded \ Range(unload_queue)
          /\ \A c \in DOMAIN loaded' : loaded'[c] = loaded[c]
          /\ entities' = entities \ {loaded[c] : c \in Range(unload_queue) \cap DOMAIN loaded}
          /\ (Range(unload_queue) \cap DOMAIN loaded = {}) =>
                loaded' = loaded /\ entities' = entities]_vars

\* an unload run dequeued a coordinate that had an entry and one that had
\* none, and left the entry of a third alone
C21_Witness ==
    /\ last_op = "unload"
    /\ args # None
    /\ \E c \in Range(Asked.unload_queue) : c \in DOMAIN Asked.loaded /\ c \notin DOMAIN loaded
    /\ \E c \in Range(Asked.unload_queue) : c \notin DOMAIN Asked.loaded
    /\ \E c \in DOMAIN loaded : c \notin Range(Asked.unload_queue)

\* the Loaded Set after the step holds every entry of before, unchanged
OnlyInserts(before, after) ==
    /\ DOMAIN before \subseteq DOMAIN after
    /\ \A c \in DOMAIN before : after[c] = before[c]

\* the Loaded Set after the step holds entries of before only, unchanged
OnlyRemoves(before, after) ==
    /\ DOMAIN after \subseteq DOMAIN before
    /\ \A c \in DOMAIN after : after[c] = before[c]

\* C22: each piece of pipeline state is changed by its own stage only.  The
\* Chunk Store changes in generate_chunks alone; the Loaded Set changes in
\* load_chunks, by inserts, and in unload_chunks, by removals, alone;
\* gather_chunks changes no more than generate_queue and unload_queue;
\* generate_chunks leaves unload_queue and the Loaded Set as they were;
\* load_chunks leaves generate_queue and unload_queue; unload_chunks leaves
\* generate_queue, load_queue and the Chunk Store; and what the host does to
\* the viewer changes no queue, no entry and no chunk.
C22_StagesOwnTheirState ==
    [][/\ chunks' # chunks => last_op' = "generate"
       /\ loaded' # loaded =>
             \/ last_op' = "load" /\ OnlyInserts(loaded, loaded')
             \/ last_op' = "unload" /\ OnlyRemoves(loaded, loaded')
       /\ last_op' = "gather" => UNCHANGED <<load_queue, loaded, chunks, entities>>
       /\ last_op' = "generate" => UNCHANGED <<unload_queue, loaded, entities>>
       /\ last_op' = "load" => UNCHANGED <<generate_queue, unload_queue, chunks>>
       /\ last_op' = "unload" => UNCHANGED <<generate_queue, load_queue, chunks>>
       /\ last_op' = "host" =>
             UNCHANGED <<generate_queue, load_queue, unload_queue, loaded, chunks,
                         entities>>]_vars

\* every stage has changed what it owns: an unload run removed an entry
\* while another entry, inserted by a load run after chunks were generated,
\* stays, and a gather has left work in generate_queue
C22_Witness ==
    /\ last_op = "unload"
    /\ last_log # << >>
    /\ loaded # << >>
    /\ chunks # << >>
    /\ generate_queue # << >>
    /\ \E i \in 1..Len(last_log) : last_log[i][1] \notin DOMAIN loaded

(***************************************************************************)
(* generate_chunks of the loader with a worker pool                        *)
(* (world/ecs/chunk_loader.rs).  The stage selects the chunks of one tick, *)
(* hands them to the pool in batches, each batch a task that generates its *)
(* chunks one after the other while the other tasks run, waits for every   *)
(* task, and then writes the results into the store.                       *)
(***************************************************************************)
\* the distance of the window that is searched for chunks to generate.
\* GENERATE_DISTANCE is 32; the model searches a window that two ticks fill.
PoolDistance == 2

\* chunks.into_iter().take(8)
PoolTake == 8

\* par_chunk_map(thread_pool, 2, ..)
PoolBatch == 2

\* all_chunks of this loader: x_min..x_max by z_min..z_max, x outermost, the
\* upper ends left out
all_chunks_2d(centre, dist) ==
    LET n == 2 * dist
    IN [k \in 1..(n * n) |->
           <<centre[1] - dist + ((k - 1) \div n),
             centre[2] - dist + ((k - 1) % n)>>]

\* chunks.sort_by(total_cmp of chunk_distance to the camera chunk): the sort
\* is stable, chunks at one distance keep their order
sort_by_distance(cs, camera_chunk) ==
    LET d(i) == chunk_distance_squared(camera_chunk, cs[i])
        before(i, j) == d(i) < d(j) \/ (d(i) = d(j) /\ i < j)
        rank(i) == Cardinality({j \in 1..Len(cs) : before(j, i)}) + 1
    IN [k \in 1..Len(cs) |-> cs[CHOOSE i \in 1..Len(cs) : rank(i) = k]]

\* the chunks of one tick: the ungenerated of the window, nearest first, at
\* most eight
chunks_to_generate(store, camera_chunk) ==
    Take(sort_by_distance(SelectSeq(all_chunks_2d(camera_chunk, PoolDistance),
                                    LAMBDA c : ~is_chunk_generated(store, c)),
                          camera_chunk),
         PoolTake)

\* slice.chunks(2): the batches of s, the last one the shorter if any is
par_chunks(s) ==
    [b \in 1..((Len(s) + PoolBatch - 1) \div PoolBatch) |->
        SubSeq(s, PoolBatch * (b - 1) + 1,
               IF PoolBatch * b < Len(s) THEN PoolBatch * b ELSE Len(s))]

\* World::generate_chunk of this loader: the data of a chunk, a function of
\* the seed and the coordinate that writes nothing
pool_generate_chunk(s, c) == [empty |-> (c[1] + c[2] + s) % 2 = 0]

\* World::cache_chunk on the pair w = [chunks, writes]
cache_chunk(w, pos, chunk_data) ==
    [chunks |-> Put(w.chunks, pos, chunk_data),
     writes |-> Put(w.writes, pos,
                    (IF pos \in DOMAIN w.writes THEN w.writes[pos] ELSE 0) + 1)]

RECURSIVE flatten(_, _, _)
\* generated_chunks.into_iter().flatten(): the results of the tasks order[i..]
flatten(out, order, i) ==
    IF i > Len(order) THEN << >> ELSE out[order[i]] \o flatten(out, order, i + 1)

\* one iteration of the for loop over the joined results on st = [i, w]
cache_step(st, generated) ==
    IF st.i > Len(generated) THEN st
    ELSE [i |-> st.i + 1, w |-> cache_chunk(st.w, generated[st.i][1], generated[st.i][2])]

\* the for loop that writes the joined results into the store
cache_all(generated, w) ==
    Loop(LAMBDA st : cache_step(st, generated), LAMBDA st : st.i > Len(generated),
         [i |-> 1, w |-> w]).w

\* as all_joined, with one finished task enough to go on
any_joined(t) == t.finished # << >> \/ t.batches = << >>

\* par_chunk_map returns: every task has finished
all_joined(t) == Len(t.finished) = Len(t.batches)

NoTasks ==
    [phase |-> "idle", selected |-> << >>, before |-> << >>, batches |-> << >>,
     out |-> << >>, finished |-> << >>]

\* where the player stands, as the chunk world_to_chunk gives for it
PoolCameraChunks == {<<0, 0>>, <<1, 1>>}

PoolInit ==
    /\ generate_queue = << >>
    /\ load_queue = << >>
    /\ unload_queue = << >>
    /\ loaded = << >>
    /\ render_distance = 0
    /\ chunks = << >>
    /\ seed \in Seeds
    /\ entities = {}
    /\ player = None
    /\ camera = None
    /\ panicked = FALSE
    /\ writes = << >>
    /\ admit_ticket = << >>
    /\ unload_ticket = << >>
    /\ moves = 0
    /\ last_op = "init"
    /\ last_log = << >>
    /\ last_wanted = << >>
    /\ tasks = NoTasks
    /\ \E cc \in PoolCameraChunks : args = Some([camera_chunk |-> cc])
    /\ result = None

\* generate_chunks up to par_chunk_map: the chunks of the tick are selected
\* and one task per batch is spawned
pool_begin ==
    /\ tasks.phase = "idle"
    /\ LET sel == chunks_to_generate(chunks, Unwrap(args).camera_chunk)
           bs == par_chunks(sel)
       IN tasks' = [phase |-> "work", selected |-> sel, before |-> chunks,
                    batches |-> bs, out |-> [b \in 1..Len(bs) |-> << >>],
                    finished |-> << >>]
    /\ last_op' = "pool_begin"
    /\ last_log' = << >>
    /\ UNCHANGED <<generate_queue, load_queue, unload_queue, loaded, render_distance,
                   chunks, seed, entities, player, camera, panicked, writes,
                   admit_ticket, unload_ticket, moves, last_wanted, args, result>>

\* the task of batch b generates its next chunk; with its last one it is
\* finished
pool_work(b) ==
    /\ tasks.phase = "work"
    /\ Len(tasks.out[b]) < Len(tasks.batches[b])
    /\ LET chunk == tasks.batches[b][Len(tasks.out[b]) + 1]
           o == Append(tasks.out[b], <<chunk, pool_generate_chunk(seed, chunk)>>)
       IN tasks' = [tasks EXCEPT !.out[b] = o,
                                 !.finished = IF Len(o) = Len(tasks.batches[b])
                                              THEN Append(@, b) ELSE @]
    /\ last_op' = "pool_work"
    /\ last_log' = << >>
    /\ UNCHANGED <<generate_queue, load_queue, unload_queue, loaded, render_distance,
                   chunks, seed, entities, player, camera, panicked, writes,
                   admit_ticket, unload_ticket, moves, last_wanted, args, result>>

\* generate_chunks from the return of par_chunk_map: the results, in the
\* order the tasks finished, are written into the store
pool_finish ==
    /\ tasks.phase = "work"
    /\ all_joined(tasks)
    /\ LET generated == flatten(tasks.out, tasks.finished, 1)
           w == cache_all(generated, [chunks |-> chunks, writes |-> writes])
       IN /\ chunks' = w.chunks
          /\ writes' = w.writes
          /\ last_log' = [i \in 1..Len(generated) |-> generated[i][1]]
    /\ tasks' = [tasks EXCEPT !.phase = "idle"]
    /\ last_op' = "pool_generate"
    /\ UNCHANGED <<generate_queue, load_queue, unload_queue, loaded, render_distance,
                   seed, entities, player, camera, panicked, admit_ticket,
                   unload_ticket, moves, last_wanted, args, result>>

PoolNext ==
    \/ pool_begin
    \/ \E b \in 1..((PoolTake + PoolBatch - 1) \div PoolBatch) :
          b <= Len(tasks.batches) /\ pool_work(b)
    \/ pool_finish

PoolSpec == PoolInit /\ [][PoolNext]_vars

\* the store that a tick must leave: what was there when it began, and the
\* data of every chunk it selected
StoreAfter(before, sel, s) ==
    [c \in DOMAIN before \cup Range(sel) |->
        IF c \in Range(sel) THEN pool_generate_chunk(s, c) ELSE before[c]]

\* C23: in the generate_chunks with a worker pool, the store after the stage
\* does not depend on how the batches (2 chunks each, at most 8 chunks a
\* tick) interleave or in which order they finish: while tasks run the store
\* is as it was when the tick began, nothing is written before every task
\* has finished, and at the end of the tick the store is the store of the
\* beginning with the data of every selected chunk, each written once.
C23_StoreIndependentOfInterleaving ==
    /\ Len(tasks.selected) <= PoolTake
    /\ \A b \in 1..Len(tasks.batches) : Len(tasks.batches[b]) <= PoolBatch
    /\ tasks.phase = "work" => chunks = tasks.before
    /\ last_op = "pool_generate" =>
          /\ chunks = StoreAfter(tasks.before, tasks.selected, seed)
          /\ Range(last_log) = Range(tasks.selected)
          /\ NoDuplicates(last_log)
          /\ \A c \in DOMAIN chunks : c \in DOMAIN writes /\ writes[c] = 1

\* a tick has ended whose four batches did not finish in the order they
\* were spawned, after a tick that had filled part of the store
C23_Witness ==
    /\ last_op = "pool_generate"
    /\ Len(tasks.selected) = PoolTake
    /\ tasks.before # << >>
    /\ \E i, j \in 1..Len(tasks.finished) : i < j /\ tasks.finished[i] > tasks.finished[j]

(***************************************************************************)
(* The pipeline with its systems in the order of a tick: gather, generate, *)
(* load, unload.  The host moves the viewer between two ticks.             *)
(***************************************************************************)
\* no tick is under way
BetweenTicks == last_op \in {"init", "unload", "host"}

\* At the widest distance the viewer stays where it was spawned: the host's
\* moves are spent from the start.
TickInit ==
    /\ generate_queue = << >>
    /\ load_queue = << >>
    /\ unload_queue = << >>
    /\ loaded = << >>
    /\ render_distance \in TickDistances
    /\ chunks = << >>
    /\ seed \in Seeds
    /\ entities = {}
    /\ player = Some(SpawnPosition)
    /\ camera = Some(SpawnForward)
    /\ panicked = FALSE
    /\ writes = << >>
    /\ admit_ticket = << >>
    /\ unload_ticket = << >>
    /\ moves = IF render_distance = Max(TickDistances) THEN MaxEffort ELSE 0
    /\ last_op = "init"
    /\ last_log = << >>
    /\ last_wanted = << >>
    /\ tasks = << >>
    /\ args = None
    /\ result = None

TickNext ==
    \/ BetweenTicks /\ gather_chunks
    \/ BetweenTicks /\ gather_chunks_panic
    \/ last_op = "gather" /\ generate_chunks
    \/ last_op = "generate" /\ load_chunks
    \/ last_op = "load" /\ unload_chunks
    \/ BetweenTicks /\ move_player
    \/ BetweenTicks /\ turn_camera

TickSpec == TickInit /\ [][TickNext]_vars

\* the host's scheduler runs the next system of the tick whenever there is
\* one to run
TickLiveSpec == TickSpec /\ WF_vars(TickNext)

\* every wanted coordinate is loaded or known to be empty, and nothing is
\* queued
Served ==
    /\ ViewerPresent
    /\ generate_queue = << >>
    /\ load_queue = << >>
    /\ unload_queue = << >>
    /\ \A c \in Range(Wanted) : c \in DOMAIN loaded \/ is_chunk_empty(chunks, c)

\* C24: with the stages run in order tick after tick, once the viewer stays
\* where it is every wanted coordinate is in the end loaded or known to be
\* empty with the three queues empty, for good, and in the end no tick
\* changes a queue, the Loaded Set or the Chunk Store any more.  (A viewer
\* that has gone away ends the process at the next gather.)
C24_ProgressUnderTheCap ==
    /\ <>[](panicked \/ Served)
    /\ <>[][UNCHANGED <<generate_queue, load_queue, unload_queue, loaded, chunks>>]_vars

\* the wanted set is served where it took more than one tick's admissions:
\* a chunk is loaded that the first tick had to leave for a later one
C24_Witness ==
    /\ Served
    /\ last_op = "unload"
    /\ render_distance = Max(TickDistances)
    /\ \E c \in Range(Wanted) : IndexOf(Wanted, c) > GenerateCap /\ c \in DOMAIN loaded

\* C25: with the stages run in order, at the end of every tick the three
\* queues are empty and every coordinate of the Loaded Set is in the wanted
\* set of that tick, wherever the viewer went between the ticks.
C25_TickEndsClean ==
    last_op = "unload" =>
        /\ generate_queue = << >>
        /\ load_queue = << >>
        /\ unload_queue = << >>
        /\ DOMAIN loaded \subseteq Range(last_wanted)

\* a tick has ended that unloaded what the viewer had left behind and loaded
\* what it now wants
C25_Witness ==
    /\ last_op = "unload"
    /\ moves > 0
    /\ render_distance < Max(TickDistances)
    /\ last_log # << >>
    /\ loaded # << >>
    /\ DOMAIN loaded \subseteq Range(last_wanted)

\* C26: under any interleaving of the four stages, no coordinate occurs
\* twice in a queue, and the selector returned none twice; generate_queue
\* and load_queue hold no loaded coordinate, so that load_chunks never
\* materializes a coordinate that has an entry and no handle is overwritten;
\* every coordinate of unload_queue is loaded; and the live chunk entities
\* are the handles of the Loaded Set, one for each entry.
C26_OneHandlePerLoadedChunk ==
    /\ NoDuplicates(generate_queue)
    /\ NoDuplicates(load_queue)
    /\ NoDuplicates(unload_queue)
    /\ NoDuplicates(last_wanted)
    /\ Range(generate_queue) \cap DOMAIN loaded = {}
    /\ Range(load_queue) \cap DOMAIN loaded = {}
    /\ Range(unload_queue) \subseteq DOMAIN loaded
    /\ entities = {loaded[c] : c \in DOMAIN loaded}
    /\ Cardinality(entities) = Cardinality(DOMAIN loaded)

\* a load run has materialized a coordinate beside the entries that were
\* there, one of which waits in unload_queue
C26_Witness ==
    /\ last_op = "load"
    /\ unload_queue # << >>
    /\ Cardinality(DOMAIN loaded) > 1
    /\ \E c \in Range(last_log) : c \in DOMAIN loaded /\ c \notin Range(unload_queue)

====
